---- MODULE Spec2Model ----
(***************************************************************************)
(* Model of the Sui package query client (src/src/main.rs): main and       *)
(* query_sui_package.  One run of the program is one behaviour: the        *)
(* request is sent, the environment answers with a transport failure or a  *)
(* response (status, body), and the program walks through its branches,    *)
(* printing lines, possibly writing response.json, and returning.          *)
(*                                                                         *)
(* Strings are sequences of Unicode code points; Rust's str::len and the   *)
(* range index &s[..n] work on the UTF-8 BYTES of the string, which the    *)
(* model computes from the code points.                                    *)
(***************************************************************************)
EXTENDS Integers, Sequences, FiniteSets, TLC

(***************************************************************************)
(* Bounds of the model (sizes of the inputs the environment chooses from). *)
(***************************************************************************)
MaxErrors == 2   \* longest `errors` list of a response
MaxNodes == 2    \* longest `packageVersions.nodes` list
MaxModules == 2  \* longest `moduleBcs` list of a node
MaxExtra == 1    \* strings reach up to this many bytes past a preview limit

(***************************************************************************)
(* Program constants.                                                      *)
(***************************************************************************)
BcsPreviewLen == 100     \* package_bcs.len() > 100, &package_bcs[..100]
ModulePreviewLen == 50   \* module.len() > 50, &module[..50]
ExitOk == 0              \* main returned Ok(())
ExitPanic == 101         \* exit status of a Rust process whose main thread panicked

(***************************************************************************)
(* Option<T>                                                               *)
(***************************************************************************)
None == [some |-> FALSE]
Some(x) == [some |-> TRUE, v |-> x]

(***************************************************************************)
(* Strings: UTF-8 byte lengths and byte-range slicing.                     *)
(***************************************************************************)
\* Number of bytes of the UTF-8 encoding of code point c.
Utf8Len(c) == IF c < 128 THEN 1 ELSE IF c < 2048 THEN 2 ELSE IF c < 65536 THEN 3 ELSE 4

\* Number of bytes of the first k characters of s: the sum of their
\* Utf8Len, counted as the pairs <<i, b>> with b a byte of character i.
ByteLenUpTo(s, k) == Cardinality({q \in (1..k) \X (1..4) : q[2] <= Utf8Len(s[q[1]])})

\* str::len(): the length of s in bytes.
StrLen(s) == ByteLenUpTo(s, Len(s))

\* str::is_char_boundary(n)
IsCharBoundary(s, n) == \E k \in 0..Len(s) : ByteLenUpTo(s, k) = n

\* &s[..n]: the characters that make up the first n bytes of s.  The index
\* operation panics when n is past the end or falls inside a character.
SliceTo(s, n) ==
  IF IsCharBoundary(s, n)
    THEN [panic |-> FALSE,
          s |-> SubSeq(s, 1, CHOOSE k \in 0..Len(s) : ByteLenUpTo(s, k) = n)]
    ELSE [panic |-> TRUE, s |-> <<>>]

(***************************************************************************)
(* JSON values (serde_json::Value).  An object is a function from its      *)
(* field names to values; an absent field is a name outside its domain.    *)
(***************************************************************************)
JNull == [k |-> "null"]
JStr(s) == [k |-> "str", s |-> s]
JNum(n) == [k |-> "num", n |-> n]
JArr(a) == [k |-> "arr", a |-> a]
JObj(o) == [k |-> "obj", o |-> o]
NoFields == [f \in {} |-> JNull]

\* Value::get(field): None unless the value is an object that has the field.
Get(v, f) == IF v.k = "obj" /\ f \in DOMAIN v.o THEN Some(v.o[f]) ELSE None

\* Value::is_null()
IsNull(v) == v.k = "null"

(***************************************************************************)
(* Typed decoding (serde derive).  A result is [ok |-> FALSE] or           *)
(* [ok |-> TRUE, v |-> value].                                             *)
(***************************************************************************)
DErr == [ok |-> FALSE]
DOk(x) == [ok |-> TRUE, v |-> x]

\* A derived struct decodes from an object (unknown fields are ignored) or,
\* positionally, from an array of exactly its number of fields.
AsStruct(v, fields) ==
  IF v.k = "obj" THEN DOk(v.o)
  ELSE IF v.k = "arr" /\ Len(v.a) = Len(fields)
    THEN DOk([f \in {fields[i] : i \in 1..Len(fields)} |->
                v.a[CHOOSE i \in 1..Len(fields) : fields[i] = f]])
  ELSE DErr

\* String
DeString(v) == IF v.k = "str" THEN DOk(v.s) ELSE DErr

\* u64: a non-negative integer (the upper end of the range is not modelled).
DeU64(v) == IF v.k = "num" /\ v.n >= 0 THEN DOk(v.n) ELSE DErr

\* Option<String>: null decodes as None.
DeOptString(v) ==
  IF IsNull(v) THEN DOk(None)
  ELSE IF DeString(v).ok THEN DOk(Some(v.s)) ELSE DErr

\* Option<Vec<String>>
DeOptStringVec(v) ==
  IF IsNull(v) THEN DOk(None)
  ELSE IF v.k = "arr" /\ \A i \in 1..Len(v.a) : DeString(v.a[i]).ok
    THEN DOk(Some([i \in 1..Len(v.a) |-> v.a[i].s]))
  ELSE DErr

\* A field of a struct: a required field must be there; a missing Option
\* field decodes as None.
ReqField(o, f) == IF f \in DOMAIN o THEN o[f] ELSE [k |-> "missing"]
OptField(o, f) == IF f \in DOMAIN o THEN o[f] ELSE JNull

\* PackageVersionNode
DeNode(v) ==
  LET st == AsStruct(v, <<"address", "version", "packageBcs", "moduleBcs">>)
  IN IF ~st.ok THEN DErr
     ELSE LET a == DeString(ReqField(st.v, "address"))
              n == DeU64(ReqField(st.v, "version"))
              b == DeOptString(OptField(st.v, "packageBcs"))
              m == DeOptStringVec(OptField(st.v, "moduleBcs"))
          IN IF a.ok /\ n.ok /\ b.ok /\ m.ok
               THEN DOk([address |-> a.v, version |-> n.v,
                         package_bcs |-> b.v, module_bcs |-> m.v])
               ELSE DErr

\* PackageVersions
DeVersions(v) ==
  LET st == AsStruct(v, <<"nodes">>)
  IN IF ~st.ok THEN DErr
     ELSE LET ns == ReqField(st.v, "nodes")
          IN IF ns.k = "arr" /\ \A i \in 1..Len(ns.a) : DeNode(ns.a[i]).ok
               THEN DOk([nodes |-> [i \in 1..Len(ns.a) |-> DeNode(ns.a[i]).v]])
               ELSE DErr

\* Option<PackageVersions>
DeOptVersions(v) ==
  IF IsNull(v) THEN DOk(None)
  ELSE IF DeVersions(v).ok THEN DOk(Some(DeVersions(v).v)) ELSE DErr

\* PackageData
DePackageData(v) ==
  LET st == AsStruct(v, <<"address", "version", "packageVersions">>)
  IN IF ~st.ok THEN DErr
     ELSE LET a == DeString(ReqField(st.v, "address"))
              n == DeU64(ReqField(st.v, "version"))
              p == DeOptVersions(OptField(st.v, "packageVersions"))
          IN IF a.ok /\ n.ok /\ p.ok
               THEN DOk([address |-> a.v, version |-> n.v, package_versions |-> p.v])
               ELSE DErr

\* GraphQLError
DeError(v) ==
  LET st == AsStruct(v, <<"message">>)
  IN IF ~st.ok THEN DErr
     ELSE LET m == DeString(ReqField(st.v, "message"))
          IN IF m.ok THEN DOk([message |-> m.v]) ELSE DErr

\* Option<Vec<GraphQLError>>
DeOptErrors(v) ==
  IF IsNull(v) THEN DOk(None)
  ELSE IF v.k = "arr" /\ \A i \in 1..Len(v.a) : DeError(v.a[i]).ok
    THEN DOk(Some([i \in 1..Len(v.a) |-> DeError(v.a[i]).v]))
  ELSE DErr

\* Option<serde_json::Value>: null decodes as None, anything else is kept.
DeOptValue(v) == IF IsNull(v) THEN DOk(None) ELSE DOk(Some(v))

\* GraphQLResponse
DeGraphQLResponse(v) ==
  LET st == AsStruct(v, <<"data", "errors">>)
  IN IF ~st.ok THEN DErr
     ELSE LET d == DeOptValue(OptField(st.v, "data"))
              e == DeOptErrors(OptField(st.v, "errors"))
          IN IF d.ok /\ e.ok THEN DOk([data |-> d.v, errors |-> e.v]) ELSE DErr

(***************************************************************************)
(* The inputs of a run: what the environment may answer.                   *)
(***************************************************************************)
\* All sequences over S of length 0..n.
SeqsUpTo(S, n) == UNION {[1..m -> S] : m \in 0..n}

\* A string of a ASCII letters followed by w two-byte characters (e-acute):
\* a + 2*w bytes, a + w characters.
Str(a, w) == [i \in 1..(a + w) |-> IF i <= a THEN 65 + (i % 7) ELSE 233]

\* packageBcs strings around the preview limit: exactly at it, past it, a
\* string whose byte BcsPreviewLen falls inside a two-byte character, a
\* non-ASCII string of exactly BcsPreviewLen bytes, and a string of two-byte
\* characters only (more than BcsPreviewLen bytes, fewer characters).
BcsStrings ==
  {Str(a, 0) : a \in BcsPreviewLen..(BcsPreviewLen + MaxExtra)}
    \cup {Str(BcsPreviewLen - 1, 1), Str(BcsPreviewLen - 2, 1),
          Str(0, (BcsPreviewLen \div 2) + 1)}

\* moduleBcs strings around the module preview limit.
ModStrings ==
  {Str(a, 0) : a \in ModulePreviewLen..(ModulePreviewLen + MaxExtra)}
    \cup {Str(ModulePreviewLen - 1, 1)}

\* An object from an optional field: None leaves the field out.
Field(f, opt) == IF opt.some THEN f :> opt.v ELSE NoFields

\* A version node as the server sends it.
NodeJson(bcs, mods) ==
  JObj(("address" :> JStr(Str(2, 0))) @@ ("version" :> JNum(1))
         @@ Field("packageBcs", bcs) @@ Field("moduleBcs", mods))

BcsFieldOpts == {None, Some(JNull)} \cup {Some(JStr(s)) : s \in BcsStrings}

ModFieldOpts ==
  {None, Some(JNull)}
    \cup {Some(JArr(l)) : l \in SeqsUpTo({JStr(s) : s \in ModStrings}, MaxModules)}

\* One module list with a module past the preview limit.
SomeModules == Some(JArr(<<JStr(Str(ModulePreviewLen + 1, 0))>>))

\* The nodes a response is built from; the last one lacks its address.
Nodes ==
  {NodeJson(b, None) : b \in BcsFieldOpts}
    \cup {NodeJson(b, SomeModules) : b \in BcsFieldOpts}
    \cup {NodeJson(None, m) : m \in ModFieldOpts}
    \cup {JObj("version" :> JNum(1))}

\* The nodes that fill the other places of a node list.
SmallNodes ==
  {NodeJson(Some(JStr(Str(BcsPreviewLen, 0))), None), NodeJson(None, SomeModules)}

\* Node lists of length 0..MaxNodes: any node of Nodes at one place.
NodeLists ==
  {<<>>} \cup UNION {{[l EXCEPT ![p] = x] : l \in [1..n -> SmallNodes], x \in Nodes}
                      : <<n, p>> \in {q \in (1..MaxNodes) \X (1..MaxNodes) : q[2] <= q[1]}}

\* A package object as the server sends it.
PackageJson(versions) ==
  JObj(("address" :> JStr(Str(3, 0))) @@ ("version" :> JNum(2))
         @@ Field("packageVersions", versions))

\* The values of data.package: null, not an object, fields missing or of
\* the wrong type, the positional (array) form, and packages with none,
\* null, broken and well-formed packageVersions.
PackageValues ==
  {JNull, JStr(Str(1, 0)), JObj("version" :> JNum(2)),
   JObj(("address" :> JStr(Str(3, 0))) @@ ("version" :> JNum(-1))),
   JArr(<<JStr(Str(3, 0)), JNum(2), JNull>>),
   PackageJson(None), PackageJson(Some(JNull)), PackageJson(Some(JObj(NoFields)))}
    \cup {PackageJson(Some(JObj("nodes" :> JArr(l)))) : l \in NodeLists}

\* The `data` field of the envelope: absent, null, not an object, an
\* object without `package`, and objects with a `package` (alone or next to
\* another field).
DataFieldOpts ==
  {None, Some(JNull), Some(JStr(Str(1, 0))), Some(JObj(NoFields))}
    \cup {Some(JObj("package" :> p)) : p \in PackageValues}
    \cup {Some(JObj(("package" :> p) @@ ("other" :> JNum(7)))) :
            p \in {JNull, PackageJson(None)}}

\* The `data` fields combined with every `errors` field.
SmallDataFieldOpts ==
  {None, Some(JNull), Some(JObj(NoFields)), Some(JObj("package" :> JNull)),
   Some(JObj("package" :> PackageJson(None)))}

ErrorJson(m) == JObj("message" :> JStr(m))

\* The `errors` field: absent, null, lists of 0..MaxErrors errors, not a
\* list, and a list with an error that has no message.
ErrorsFieldOpts ==
  {None, Some(JNull), Some(JStr(Str(1, 0))), Some(JArr(<<JObj(NoFields)>>))}
    \cup {Some(JArr(l)) : l \in SeqsUpTo({ErrorJson(Str(1, 0)), ErrorJson(Str(0, 1))},
                                           MaxErrors)}

EnvelopeJson(data, errors) == JObj(Field("data", data) @@ Field("errors", errors))

\* A body that is not JSON at all.
NotJson == [k |-> "invalid"]

\* The documents a response body may hold.
Bodies ==
  {NotJson, JStr(Str(1, 0))}
    \cup {EnvelopeJson(d, None) : d \in DataFieldOpts}
    \cup {EnvelopeJson(d, e) : d \in SmallDataFieldOpts, e \in ErrorsFieldOpts}

\* The bodies that come with a non-success status.
ErrorBodies ==
  {NotJson, EnvelopeJson(Some(JObj("package" :> PackageJson(None))), None),
   EnvelopeJson(None, Some(JArr(<<ErrorJson(Str(1, 0))>>)))}

\* reqwest::Response: the status, whether the body can be read to its end,
\* and the document the body holds.
Responses ==
  {[status |-> st, readable |-> TRUE, doc |-> b] : st \in {200, 299}, b \in Bodies}
    \cup {[status |-> st, readable |-> r, doc |-> b] :
            st \in {199, 300, 404, 500}, r \in BOOLEAN, b \in ErrorBodies}
    \cup {[status |-> 200, readable |-> FALSE, doc |-> b] : b \in ErrorBodies}

(***************************************************************************)
(* Printed lines.  A line is the format string of its println! and the     *)
(* values displayed in its {} places.                                      *)
(***************************************************************************)
DNum(n) == [ty |-> "num", n |-> n]     \* an integer
DStr(s) == [ty |-> "str", s |-> s]     \* a string
DErrv(e) == [ty |-> "err", e |-> e]    \* an anyhow::Error, named by the call that failed
DJson(v) == [ty |-> "json", v |-> v]   \* serde_json::to_string_pretty(v)
DText(d) == [ty |-> "text", d |-> d]   \* the text of a response body holding document d

Line(fmt, args) == [fmt |-> fmt, args |-> args]

\* The package address main queries (abbreviated).
PackageAddress == <<48, 120, 99, 51>>

\* The instants chrono::Utc::now() may return.
Clock == {1, 2}

\* IsSuccess with only the client and server errors (>= 400) as failures.
IsSuccessBelow400(st) == st < 400

\* StatusCode::is_success()
IsSuccess(st) == 200 <= st /\ st < 300

(***************************************************************************)
(* The state of a run.                                                     *)
(***************************************************************************)
VARIABLES
  pc,       \* where the program is
  out,      \* the lines printed to standard output so far
  resp,     \* the response received
  envl,     \* graphql_response: the decoded envelope
  package,  \* the decoded PackageData
  idx,      \* the place of the version-node loop (1-based)
  result,   \* what query_sui_package returned
  exit,     \* the exit status of the process (-1 while it runs)
  file,     \* response.json
  calls     \* history: the fallible calls made so far, in order

vars == <<pc, out, resp, envl, package, idx, result, exit, file, calls>>

NoResponse == [status |-> 0, readable |-> FALSE, doc |-> JNull]
NoEnvelope == [data |-> None, errors |-> None]
NoPackage == [address |-> <<>>, version |-> 0, package_versions |-> None]
NoResult == [ret |-> "none"]
RetOk == [ret |-> "Ok"]
RetErr(e) == [ret |-> "Err", e |-> e]

\* response.json before the run: whatever an earlier run left.
OldFile == [state |-> "old"]

Init ==
  /\ pc = "start"
  /\ out = <<>>
  /\ resp = NoResponse
  /\ envl = NoEnvelope
  /\ package = NoPackage
  /\ idx = 0
  /\ result = NoResult
  /\ exit = -1
  /\ file = OldFile
  /\ calls = <<>>

\* query_sui_package returns r to main.
Return(r) == pc' = "main_match" /\ result' = r

(***************************************************************************)
(* main, up to the call of query_sui_package.                              *)
(***************************************************************************)
MainStart ==
  /\ pc = "start"
  /\ out' = out \o <<Line("Querying Sui Package...", <<>>)>>
  /\ pc' = "send"
  /\ UNCHANGED <<resp, envl, package, idx, result, exit, file, calls>>

(***************************************************************************)
(* client.post(..).send().await?                                           *)
(***************************************************************************)
Send ==
  /\ pc = "send"
  /\ calls' = Append(calls, "send")
  /\ \/ /\ Return(RetErr("send"))
        /\ UNCHANGED resp
     \/ /\ \E r \in Responses : resp' = r
        /\ pc' = "status"
        /\ UNCHANGED result
  /\ UNCHANGED <<out, envl, package, idx, exit, file>>

(***************************************************************************)
(* if !response.status().is_success() { println!("HTTP Error: ..") .. }    *)
(***************************************************************************)
CheckStatus ==
  /\ pc = "status"
  /\ IF ~IsSuccess(resp.status)
       THEN /\ out' = out \o <<Line("HTTP Error: {}", <<DNum(resp.status)>>)>>
            /\ pc' = "text"
       ELSE /\ pc' = "json"
            /\ UNCHANGED out
  /\ UNCHANGED <<resp, envl, package, idx, result, exit, file, calls>>

(***************************************************************************)
(* let error_text = response.text().await?; println!(..); return Ok(())    *)
(***************************************************************************)
ReadText ==
  /\ pc = "text"
  /\ calls' = Append(calls, "text")
  /\ IF resp.readable
       THEN /\ out' = out \o <<Line("Error response: {}", <<DText(resp.doc)>>)>>
            /\ Return(RetOk)
       ELSE /\ Return(RetErr("text"))
            /\ UNCHANGED out
  /\ UNCHANGED <<resp, envl, package, idx, exit, file>>

(***************************************************************************)
(* let graphql_response: GraphQLResponse = response.json().await?;         *)
(***************************************************************************)
ParseJson ==
  /\ pc = "json"
  /\ calls' = Append(calls, "json")
  /\ LET d == IF resp.readable THEN DeGraphQLResponse(resp.doc) ELSE DErr
     IN IF d.ok
          THEN /\ envl' = d.v
               /\ pc' = "errors"
               /\ UNCHANGED result
          ELSE /\ Return(RetErr("json"))
               /\ UNCHANGED envl
  /\ UNCHANGED <<out, resp, package, idx, exit, file>>

(***************************************************************************)
(* if let Some(errors) = graphql_response.errors { .. return Ok(()) }      *)
(***************************************************************************)
\* ErrorLines in reverse order.
ErrorLinesReversed(errors) ==
  [j \in 1..Len(errors) |-> Line("  - {}", <<DStr(errors[Len(errors) + 1 - j].message)>>)]

\* TakesErrorsBranch for a list that also has to be non-empty.
TakesErrorsBranchNonEmpty(errors) == errors.some /\ Len(errors.v) > 0

\* if let Some(errors) = graphql_response.errors
TakesErrorsBranch(errors) == errors.some

\* The line of each error, in list order.
ErrorLines(errors) ==
  [j \in 1..Len(errors) |-> Line("  - {}", <<DStr(errors[j].message)>>)]

HandleErrors ==
  /\ pc = "errors"
  /\ IF TakesErrorsBranch(envl.errors)
       THEN /\ out' = out \o <<Line("GraphQL Errors:", <<>>)>> \o ErrorLines(envl.errors.v)
            /\ Return(RetOk)
       ELSE /\ pc' = "data"
            /\ UNCHANGED <<out, result>>
  /\ UNCHANGED <<resp, envl, package, idx, exit, file, calls>>

(***************************************************************************)
(* if let Some(data) = graphql_response.data {                             *)
(*     if let Some(package_data) = data.get("package") { .. } else { .. }  *)
(* } else { .. }                                                           *)
(***************************************************************************)
\* ProcessData without the is_null() branch.
ProcessDataNoNullCheck ==
  /\ pc = "data"
  /\ IF ~envl.data.some
       THEN /\ out' = out \o <<Line("No data in response", <<>>)>>
            /\ Return(RetOk)
       ELSE LET package_data == Get(envl.data.v, "package")
            IN IF ~package_data.some
                 THEN /\ out' = out \o <<Line("No package data in response", <<>>),
                                         Line("Full response: {}", <<DJson(envl.data.v)>>)>>
                      /\ Return(RetOk)
                 ELSE /\ pc' = "write"
                      /\ UNCHANGED <<out, result>>
  /\ UNCHANGED <<resp, envl, package, idx, exit, file, calls>>

ProcessData ==
  /\ pc = "data"
  /\ IF ~envl.data.some
       THEN /\ out' = out \o <<Line("No data in response", <<>>)>>
            /\ Return(RetOk)
       ELSE LET package_data == Get(envl.data.v, "package")
            IN IF ~package_data.some
                 THEN /\ out' = out \o <<Line("No package data in response", <<>>),
                                         Line("Full response: {}", <<DJson(envl.data.v)>>)>>
                      /\ Return(RetOk)
                 ELSE IF IsNull(package_data.v)
                   THEN /\ out' = out \o <<Line("Package not found at address: {}",
                                                <<DStr(PackageAddress)>>)>>
                        /\ Return(RetOk)
                   ELSE /\ pc' = "write"
                        /\ UNCHANGED <<out, result>>
  /\ UNCHANGED <<resp, envl, package, idx, exit, file, calls>>

(***************************************************************************)
(* let response_json = json!({..});                                        *)
(* std::fs::write("response.json", to_string_pretty(&response_json)?)?;    *)
(***************************************************************************)
JLit(t) == [k |-> "lit", t |-> t]     \* a string that is a literal of the program
JTime(t) == [k |-> "time", t |-> t]   \* to_rfc3339() of the instant t

\* ResponseJson with the package object alone as its data.
ResponseJsonPackageOnly(data, t) ==
  JObj([status |-> JLit("success"),
        query |-> JObj([package_address |-> JStr(PackageAddress),
                        timestamp |-> JTime(t),
                        endpoint |-> JLit("https://sui-mainnet.mystenlabs.com/graphql")]),
        data |-> Get(data, "package").v])

\* The document written to response.json.
ResponseJson(data, t) ==
  JObj([status |-> JLit("success"),
        query |-> JObj([package_address |-> JStr(PackageAddress),
                        timestamp |-> JTime(t),
                        endpoint |-> JLit("https://sui-mainnet.mystenlabs.com/graphql")]),
        data |-> data])

\* WriteFile that goes on to the decode when the write fails.
WriteFileIgnoreError ==
  /\ pc = "write"
  /\ calls' = Append(calls, "write")
  /\ \/ \E t \in Clock :
          file' = [state |-> "written", doc |-> ResponseJson(envl.data.v, t)]
     \/ file' \in {file, [state |-> "truncated"]}
  /\ pc' = "decode"
  /\ UNCHANGED <<out, resp, envl, package, idx, result, exit>>

\* A write that fails leaves the file as it was (it could not be opened) or
\* cut short (it was opened, and truncated, before the failure).
WriteFile ==
  /\ pc = "write"
  /\ calls' = Append(calls, "write")
  /\ \/ /\ \E t \in Clock :
             file' = [state |-> "written", doc |-> ResponseJson(envl.data.v, t)]
        /\ pc' = "decode"
        /\ UNCHANGED result
     \/ /\ file' \in {file, [state |-> "truncated"]}
        /\ Return(RetErr("write"))
  /\ UNCHANGED <<out, resp, envl, package, idx, exit>>

(***************************************************************************)
(* match serde_json::from_value::<PackageData>(package_data.clone())       *)
(***************************************************************************)
\* The lines that open the report of a decoded package.
PackageLines(p) ==
  <<Line("=== Package Information ===", <<>>),
    Line("Address: {}", <<DStr(p.address)>>),
    Line("Current Version: {}", <<DNum(p.version)>>)>>

\* VersionsLines that decides by the number of nodes.
VersionsLinesByCount(p) ==
  IF p.package_versions.some /\ Len(p.package_versions.v.nodes) > 0
    THEN <<Line("\n=== Package Versions ({} found) ===",
                <<DNum(Len(p.package_versions.v.nodes))>>)>>
    ELSE <<Line("No package versions found", <<>>)>>

\* if let Some(versions) = package.package_versions { header } else { .. }
VersionsLines(p) ==
  IF p.package_versions.some
    THEN <<Line("\n=== Package Versions ({} found) ===",
                <<DNum(Len(p.package_versions.v.nodes))>>)>>
    ELSE <<Line("No package versions found", <<>>)>>

DecodePackage ==
  /\ pc = "decode"
  /\ calls' = Append(calls, "from_value")
  /\ LET package_data == Get(envl.data.v, "package").v
         d == DePackageData(package_data)
     IN IF d.ok
          THEN /\ package' = d.v
               /\ out' = out \o PackageLines(d.v) \o VersionsLines(d.v)
               /\ IF d.v.package_versions.some /\ Len(d.v.package_versions.v.nodes) > 0
                    THEN /\ pc' = "node"
                         /\ idx' = 1
                         /\ UNCHANGED result
                    ELSE /\ Return(RetOk)
                         /\ UNCHANGED idx
          ELSE /\ out' = out \o <<Line("Failed to parse package data: {}",
                                       <<DErrv("from_value")>>),
                                  Line("Raw data: {}", <<DJson(package_data)>>)>>
               /\ Return(RetOk)
               /\ UNCHANGED <<package, idx>>
  /\ UNCHANGED <<resp, envl, exit, file>>

(***************************************************************************)
(* for (i, version) in versions.nodes.iter().enumerate() { .. }            *)
(* One step is one iteration.  What an iteration prints is a record        *)
(* [lines, panic]: the lines printed, and whether a slice panicked after   *)
(* them.                                                                   *)
(***************************************************************************)
Printed(lines) == [lines |-> lines, panic |-> FALSE]
PanicAfter(lines) == [lines |-> lines, panic |-> TRUE]

\* a, then b unless a panicked.
Then(a, b) == IF a.panic THEN a ELSE [lines |-> a.lines \o b.lines, panic |-> b.panic]

\* if let Some(package_bcs) = &version.package_bcs { .. } else { .. }
BcsLines(bcs) ==
  IF ~bcs.some THEN Printed(<<Line("  Package BCS: None", <<>>)>>)
  ELSE LET s == bcs.v
           length == <<Line("  Package BCS Length: {} characters", <<DNum(StrLen(s))>>)>>
       IN IF StrLen(s) > BcsPreviewLen
            THEN LET head == SliceTo(s, BcsPreviewLen)
                 IN IF head.panic THEN PanicAfter(length)
                    ELSE Printed(length \o
                                 <<Line("  Package BCS Preview: {}...", <<DStr(head.s)>>)>>)
            ELSE Printed(length \o <<Line("  Package BCS: {}", <<DStr(s)>>)>>)

\* ModuleLines with a preview for every module.
ModuleLinesAlwaysPreview(j, module) ==
  LET length == <<Line("    Module {}: {} characters", <<DNum(j), DNum(StrLen(module))>>)>>
  IN IF StrLen(module) > ModulePreviewLen
       THEN LET head == SliceTo(module, ModulePreviewLen)
            IN IF head.panic THEN PanicAfter(length)
               ELSE Printed(length \o <<Line("      Preview: {}...", <<DStr(head.s)>>)>>)
       ELSE Printed(length \o <<Line("      Preview: {}...", <<DStr(module)>>)>>)

\* The body of the module loop for module j.
ModuleLines(j, module) ==
  LET length == <<Line("    Module {}: {} characters", <<DNum(j), DNum(StrLen(module))>>)>>
  IN IF StrLen(module) > ModulePreviewLen
       THEN LET head == SliceTo(module, ModulePreviewLen)
            IN IF head.panic THEN PanicAfter(length)
               ELSE Printed(length \o <<Line("      Preview: {}...", <<DStr(head.s)>>)>>)
       ELSE Printed(length)

RECURSIVE ModulesFrom(_, _)
\* for (j, module) in modules.iter().enumerate(), from module j on.
ModulesFrom(modules, j) ==
  IF j > Len(modules) THEN Printed(<<>>)
  ELSE Then(ModuleLines(j, modules[j]), ModulesFrom(modules, j + 1))

\* if let Some(modules) = &version.module_bcs { .. } else { .. }
ModuleBcsLines(mods) ==
  IF ~mods.some THEN Printed(<<Line("  Module BCS: None", <<>>)>>)
  ELSE Then(Printed(<<Line("  Number of Modules: {}", <<DNum(Len(mods.v))>>)>>),
            ModulesFrom(mods.v, 1))

\* One iteration of the version loop, for node i.
NodeLines(i, version) ==
  Then(Printed(<<Line("\n--- Version {} ---", <<DNum(i)>>),
                 Line("  Address: {}", <<DStr(version.address)>>),
                 Line("  Version Number: {}", <<DNum(version.version)>>)>>),
       Then(BcsLines(version.package_bcs), ModuleBcsLines(version.module_bcs)))

PrintNode ==
  /\ pc = "node"
  /\ LET nodes == package.package_versions.v.nodes
         p == NodeLines(idx, nodes[idx])
     IN /\ out' = out \o p.lines
        /\ IF p.panic
             THEN /\ pc' = "panicked"
                  /\ exit' = ExitPanic
                  /\ UNCHANGED <<idx, result>>
             ELSE IF idx < Len(nodes)
               THEN /\ idx' = idx + 1
                    /\ UNCHANGED <<pc, result, exit>>
               ELSE /\ Return(RetOk)
                    /\ UNCHANGED <<idx, exit>>
  /\ UNCHANGED <<resp, envl, package, file, calls>>

(***************************************************************************)
(* match query_sui_package(package_address).await { .. }  Ok(())           *)
(***************************************************************************)
MainMatch ==
  /\ pc = "main_match"
  /\ out' = out \o (IF result.ret = "Ok"
                      THEN <<Line("\nQuery completed successfully!", <<>>)>>
                      ELSE <<Line("Error occurred: {}", <<DErrv(result.e)>>)>>)
  /\ pc' = "done"
  /\ exit' = ExitOk
  /\ UNCHANGED <<resp, envl, package, idx, result, file, calls>>

Next ==
  \/ MainStart
  \/ Send
  \/ CheckStatus
  \/ ReadText
  \/ ParseJson
  \/ HandleErrors
  \/ ProcessData
  \/ WriteFile
  \/ DecodePackage
  \/ PrintNode
  \/ MainMatch

Spec == Init /\ [][Next]_vars

(***************************************************************************)
(* Vocabulary of the properties.                                           *)
(***************************************************************************)
Called(c) == \E k \in 1..Len(calls) : calls[k] = c
HasLine(fmt) == \E k \in 1..Len(out) : out[k].fmt = fmt
HasArgLine(fmt, args) == \E k \in 1..Len(out) : out[k] = Line(fmt, args)
LinesOf(fmts) == SelectSeq(out, LAMBDA l : l.fmt \in fmts)

\* A response arrived; the envelope was decoded; the query returned to main;
\* the run is over.
Received == Called("send") /\ result # RetErr("send")
NonSuccess == Received /\ (resp.status < 200 \/ resp.status >= 300)
EnvelopeDecoded == Called("json") /\ result # RetErr("json")
Returned == pc \in {"main_match", "done"}
Ended == pc \in {"done", "panicked"}
PastErrors == EnvelopeDecoded /\ pc # "errors"
PastData == PastErrors /\ pc # "data"

InfoFmt == "=== Package Information ==="
HeaderFmt == "\n=== Package Versions ({} found) ==="
NoVersionsFmt == "No package versions found"
NotFoundFmt == "Package not found at address: {}"
ModuleFmt == "    Module {}: {} characters"
PreviewFmt == "      Preview: {}..."
BcsFullFmt == "  Package BCS: {}"
BcsPreviewFmt == "  Package BCS Preview: {}..."

\* The lines of a package report.
ReportFmts ==
  {InfoFmt, "Address: {}", "Current Version: {}", HeaderFmt, NoVersionsFmt,
   "\n--- Version {} ---", "  Address: {}", "  Version Number: {}",
   "  Package BCS Length: {} characters", BcsFullFmt, BcsPreviewFmt,
   "  Package BCS: None", "  Number of Modules: {}", ModuleFmt, PreviewFmt,
   "  Module BCS: None"}
ReportPrinted == \E k \in 1..Len(out) : out[k].fmt \in ReportFmts

\* The typed decode succeeded (the report was begun).
PackageDecoded == HasLine(InfoFmt)
NodesOf(p) == IF p.package_versions.some THEN p.package_versions.v.nodes ELSE <<>>
ModulesOf(node) == IF node.module_bcs.some THEN node.module_bcs.v ELSE <<>>
\* The places <<i, j>> of the module strings of the decoded package.
ModulePlaces ==
  UNION {{<<i, j>> : j \in 1..Len(ModulesOf(NodesOf(package)[i]))}
           : i \in 1..Len(NodesOf(package))}
ModuleAt(q) == ModulesOf(NodesOf(package)[q[1]])[q[2]]

\* The `errors` and `data.package` fields as the server sent them.
RawErrors == OptField(resp.doc.o, "errors")
NullPackage ==
  /\ envl.data.some
  /\ Get(envl.data.v, "package").some
  /\ IsNull(Get(envl.data.v, "package").v)

(***************************************************************************)
(* C1. The run always ends with main's closing line and exit status 0, and *)
(* never ends abnormally.                                                  *)
(***************************************************************************)
\* C1 (as claimed): whatever the outcome, the process does not panic, and
\* once it has an exit status that status is 0 and the last line printed is
\* main's "Query completed successfully!" or "Error occurred: ..".
C1_AlwaysExitsZero ==
  /\ pc # "panicked"
  /\ exit # -1 =>
       /\ exit = ExitOk
       /\ out[Len(out)].fmt \in {"\nQuery completed successfully!", "Error occurred: {}"}

(***************************************************************************)
(* C2. Non-success HTTP status.                                            *)
(***************************************************************************)
\* C2 (as claimed): after a response with a non-success status the query
\* has printed the status and the body text and returned Ok, with no
\* envelope decode, no typed decode and no package report.
C2_NonSuccessPrintsBodyAndReturnsOk ==
  (NonSuccess /\ Returned) =>
    /\ HasArgLine("HTTP Error: {}", <<DNum(resp.status)>>)
    /\ HasArgLine("Error response: {}", <<DText(resp.doc)>>)
    /\ result = RetOk
    /\ ~Called("json") /\ ~Called("from_value") /\ ~ReportPrinted

\* C2 (amended): after a response with a non-success status the status is
\* printed, and neither the envelope decode nor the typed decode nor a
\* package report nor a write of response.json takes place; when the body
\* can be read its text is printed and the query returns Ok, and when
\* reading the body fails nothing more is printed and the query returns the
\* error.
C2_NonSuccessAmended ==
  (NonSuccess /\ pc # "status") =>
    /\ Len(out) >= 2 /\ out[2] = Line("HTTP Error: {}", <<DNum(resp.status)>>)
    /\ ~Called("json") /\ ~Called("from_value") /\ ~ReportPrinted /\ file = OldFile
    /\ Returned =>
         IF resp.readable
           THEN /\ result = RetOk
                /\ Len(out) >= 3 /\ out[3] = Line("Error response: {}", <<DText(resp.doc)>>)
           ELSE /\ result = RetErr("text")
                /\ ~HasLine("Error response: {}")

C2_Witness ==
  /\ pc = "done" /\ NonSuccess /\ resp.status >= 400 /\ resp.readable
  /\ resp.doc = EnvelopeJson(Some(JObj("package" :> PackageJson(None))), None)
  /\ result = RetOk

(***************************************************************************)
(* C3. A non-empty errors list.                                            *)
(***************************************************************************)
\* C3: when the decoded envelope has a non-empty `errors` list, then once
\* the query has returned the "  - {}" lines are exactly the messages, one
\* line each in list order, no line of a package report is printed, and the
\* query returned Ok.
C3_ErrorsPrintedOnceInOrder ==
  (EnvelopeDecoded /\ Returned /\ envl.errors.some /\ Len(envl.errors.v) > 0) =>
    LET msgs == LinesOf({"  - {}"})
    IN /\ Len(msgs) = Len(envl.errors.v)
       /\ \A j \in 1..Len(msgs) : msgs[j].args = <<DStr(envl.errors.v[j].message)>>
       /\ ~ReportPrinted
       /\ result = RetOk

C3_Witness ==
  /\ pc = "done" /\ EnvelopeDecoded
  /\ envl.errors.some /\ Len(envl.errors.v) = 2
  /\ envl.errors.v[1] # envl.errors.v[2]
  /\ envl.data.some /\ Get(envl.data.v, "package").some /\ ~NullPackage
  /\ Len(LinesOf({"  - {}"})) = 2

(***************************************************************************)
(* C4. When the errors branch ends the operation.                          *)
(***************************************************************************)
\* The operation looked up `package` in `data` and acted on what it found.
DataLookedUp ==
  \/ HasLine("No package data in response")
  \/ HasLine(NotFoundFmt)
  \/ pc = "write" \/ Called("write")

\* C4 (as claimed): the errors branch is taken only for a non-empty list,
\* and with `errors` empty or absent and `data` present the operation goes
\* on to look up `package`.
C4_EndsOnlyOnNonEmptyErrors ==
  PastData =>
    /\ HasLine("GraphQL Errors:") => (envl.errors.some /\ Len(envl.errors.v) > 0)
    /\ ((~envl.errors.some \/ Len(envl.errors.v) = 0) /\ envl.data.some) => DataLookedUp

\* C4 (amended): the errors branch ends the operation whenever `errors` is
\* a list, empty or not: "GraphQL Errors:" is printed, `data` is not looked
\* at and the query returns Ok; only when `errors` is absent or null and
\* `data` is present does the operation go on to look up `package`.
C4_EndsOnAnyErrorsList ==
  PastErrors =>
    /\ HasLine("GraphQL Errors:") <=> (RawErrors.k = "arr")
    /\ RawErrors.k = "arr" => (~DataLookedUp /\ Returned /\ result = RetOk)
    /\ (PastData /\ RawErrors.k # "arr" /\ envl.data.some) => DataLookedUp

C4_Witness ==
  /\ pc = "done" /\ EnvelopeDecoded
  /\ RawErrors.k = "arr" /\ Len(RawErrors.a) = 0
  /\ envl.data.some /\ Get(envl.data.v, "package").some /\ ~NullPackage
  /\ ~DataLookedUp

(***************************************************************************)
(* C5. data.package is null.                                               *)
(***************************************************************************)
\* C5 (as claimed): with `data` present and `data.package` null the query
\* prints "Package not found" and returns Ok, with no typed decode, no
\* package report and no write of response.json.
C5_NullPackageReportsNotFound ==
  (EnvelopeDecoded /\ Returned /\ NullPackage) =>
    /\ HasArgLine(NotFoundFmt, <<DStr(PackageAddress)>>)
    /\ result = RetOk
    /\ ~Called("from_value") /\ ~ReportPrinted
    /\ ~Called("write") /\ file = OldFile

\* C5 (amended): with `data` present and `data.package` null the query
\* returns Ok with no typed decode, no package report and no write of
\* response.json; it prints "Package not found" when the envelope has no
\* `errors` list, and the "GraphQL Errors:" lines instead when it has one.
C5_NullPackageAmended ==
  (EnvelopeDecoded /\ Returned /\ NullPackage) =>
    /\ result = RetOk
    /\ ~Called("from_value") /\ ~ReportPrinted
    /\ ~Called("write") /\ file = OldFile
    /\ IF RawErrors.k = "arr"
         THEN HasLine("GraphQL Errors:") /\ ~HasLine(NotFoundFmt)
         ELSE /\ Len(out) \in {2, 3}
              /\ out[2] = Line(NotFoundFmt, <<DStr(PackageAddress)>>)

C5_Witness ==
  /\ pc = "done" /\ EnvelopeDecoded /\ NullPackage
  /\ RawErrors.k # "arr"
  /\ "other" \in DOMAIN envl.data.v.o
  /\ HasLine(NotFoundFmt)

(***************************************************************************)
(* C6. A package with no version nodes.                                    *)
(***************************************************************************)
\* C6 (as claimed): a decoded package with 0 version nodes gets "No package
\* versions found" and no "=== Package Versions (N found) ===" header.
C6_NoNodesNoHeader ==
  (PackageDecoded /\ Len(NodesOf(package)) = 0) =>
    (HasLine(NoVersionsFmt) /\ ~HasLine(HeaderFmt))

\* C6 (amended): a decoded package gets "No package versions found", and no
\* header, exactly when `packageVersions` is absent or null; when it is
\* present the header with the number of nodes is printed, also for an
\* empty `nodes` list ("0 found"), and "No package versions found" is not.
C6_HeaderWheneverVersionsPresent ==
  PackageDecoded =>
    IF package.package_versions.some
      THEN /\ HasArgLine(HeaderFmt, <<DNum(Len(package.package_versions.v.nodes))>>)
           /\ ~HasLine(NoVersionsFmt)
      ELSE HasLine(NoVersionsFmt) /\ ~HasLine(HeaderFmt)

C6_Witness ==
  /\ pc = "done" /\ PackageDecoded
  /\ package.package_versions.some /\ Len(package.package_versions.v.nodes) = 0
  /\ HasArgLine(HeaderFmt, <<DNum(0)>>)

(***************************************************************************)
(* C7. The package-BCS preview.                                            *)
(***************************************************************************)
\* C7 (as claimed): when the run is over, every version node of the decoded
\* package has got its package-BCS line, and for a node with a string s it
\* is the full string when s has at most 100 characters and the first 100
\* characters of s, with the ellipsis, when s has more.
C7_BcsPreviewByCharacters ==
  (Ended /\ PackageDecoded) =>
    LET nodes == NodesOf(package)
        shown == LinesOf({BcsFullFmt, BcsPreviewFmt, "  Package BCS: None"})
    IN /\ Len(shown) = Len(nodes)
       /\ \A i \in 1..Len(nodes) :
            nodes[i].package_bcs.some =>
              LET s == nodes[i].package_bcs.v
              IN IF Len(s) <= BcsPreviewLen
                   THEN shown[i] = Line(BcsFullFmt, <<DStr(s)>>)
                   ELSE shown[i] = Line(BcsPreviewFmt, <<DStr(SubSeq(s, 1, BcsPreviewLen))>>)

(***************************************************************************)
(* C8. The `data` field of response.json.                                  *)
(***************************************************************************)
\* C8 (as claimed): whenever response.json is written, its `data` field is
\* the value of the response's `data.package`.
C8_FileDataIsPackage ==
  file.state = "written" => file.doc.o["data"] = Get(envl.data.v, "package").v

\* C8 (amended): whenever response.json is written, its `data` field is the
\* whole `data` value of the response, the object that holds `package` (and
\* any other field the server sent), not the package object itself.
C8_FileDataIsWholeData ==
  file.state = "written" =>
    /\ file.doc.o["data"] = resp.doc.o["data"]
    /\ Get(file.doc.o["data"], "package") = Get(resp.doc.o["data"], "package")
    /\ Get(file.doc.o["data"], "package").some
    /\ file.doc.o["query"].o["package_address"] = JStr(PackageAddress)

C8_Witness ==
  /\ file.state = "written"
  /\ "other" \in DOMAIN resp.doc.o["data"].o
  /\ file.doc.o["data"] = JObj(("package" :> PackageJson(None)) @@ ("other" :> JNum(7)))

C10_WriteOnlyOnPackagePath ==
  /\ Cardinality({k \in 1..Len(calls) : calls[k] = "write"}) <= 1
  /\ Called("write") =>
       /\ Received /\ resp.status >= 200 /\ resp.status < 300
       /\ EnvelopeDecoded
       /\ ~envl.errors.some
       /\ envl.data.some
       /\ Get(envl.data.v, "package").some
       /\ ~IsNull(Get(envl.data.v, "package").v)
  /\ ~Called("write") => file = OldFile
  /\ \A b \in 1..Len(calls) :
       calls[b] = "from_value" => \E a \in 1..(b - 1) : calls[a] = "write"
  /\ Called("from_value") => file.state = "written"
  /\ HasLine("Failed to parse package data: {}") => file.state = "written"
  /\ result = RetErr("write") =>
       (file.state # "written" /\ ~Called("from_value") /\ ~ReportPrinted)

C10_Witness ==
  /\ pc = "done"
  /\ file.state = "written"
  /\ HasLine("Failed to parse package data: {}")
  /\ calls = <<"send", "json", "write", "from_value">>

====
